---- MODULE Spec2Model ----
(***************************************************************************)
(* Model of the Cynchrony analytics dashboard (src/main.py): the fetcher   *)
(* fetch_data, the formatting helpers format_number and                    *)
(* get_success_rate_color, and the Streamlit script main() with its        *)
(* render / auto-refresh loop.                                             *)
(*                                                                         *)
(* Conventions.  A Python str that the program builds character by         *)
(* character (a formatted number) is a sequence of one-character strings.  *)
(* A success rate is held in tenths of a percent (972 is 97.2).  A JSON    *)
(* payload is a record [type, num, cats, items]: type "None" is Python's   *)
(* None, "dict" an object, "list" an array, "unbound" a local that has not *)
(* been assigned yet.                                                      *)
(***************************************************************************)
EXTENDS Integers, Sequences, FiniteSets, TLC

(***************************************************************************)
(* Program constants.                                                      *)
(***************************************************************************)
\* REFRESH_INTERVAL = int(st.secrets["DASHBOARD_REFRESH_INTERVAL"]); a valid
\* configuration lies inside the slider's range.
REFRESH_INTERVAL == 15
SliderMin == 10
SliderMax == 120
FetchTimeout == 10
HealthTimeout == 5
HttpOk == 200
Million == 1000000
Thousand == 1000
HighRate == 95
MediumRate == 80
TopN == 10
RecentN == 20
DefaultSuccessRate == 100
\* a Python float is an IEEE double: 53 significant bits
MantissaBits == 53

BACKEND_URL == "http://backend"

(***************************************************************************)
(* Bounds of the model.                                                    *)
(***************************************************************************)
\* longest endpoints list the backend returns (one more than the panel shows)
MaxEndpoints == 11
\* longest errors list the backend returns (one more than the table shows)
MaxErrors == 21
\* rows of the hourly and daily series
MaxBuckets == 3
\* half-width of the windows of integers format_number is applied to
FmtWindow == 6
\* largest success rate, in percent, get_success_rate_color is applied to
MaxRatePct == 101

(***************************************************************************)
(* Characters and decimal conversion.                                      *)
(***************************************************************************)
DigitChars == <<"0", "1", "2", "3", "4", "5", "6", "7", "8", "9">>

DigitChar(d) == DigitChars[d + 1]

RECURSIVE NatStr(_)
\* str(n) for a natural number n
NatStr(n) == IF n < 10 THEN <<DigitChar(n)>>
             ELSE Append(NatStr(n \div 10), DigitChar(n % 10))

\* str(n) for a Python int
IntStr(n) == IF n < 0 THEN <<"-">> \o NatStr(-n) ELSE NatStr(n)

RECURSIVE BitLength(_)
BitLength(q) == IF q = 0 THEN 0 ELSE 1 + BitLength(q \div 2)

RECURSIVE RoundingDirection(_, _, _, _)
\* The remainder rem/d is what is left of the quotient after the bits kept so
\* far; `left` more bits are kept, `lastBit` is the last bit kept.  The result
\* is the sign of (nearest double - exact quotient): round to nearest, ties to
\* even.
RoundingDirection(rem, d, left, lastBit) ==
    IF rem = 0 THEN 0
    ELSE IF left = 0
         THEN IF 2 * rem < d THEN -1
              ELSE IF 2 * rem > d THEN 1
              ELSE IF lastBit = 0 THEN -1 ELSE 1
         ELSE RoundingDirection((2 * rem) % d, d, left - 1, (2 * rem) \div d)

\* Python's num / d for ints num >= d > 0: the double nearest to the
\* quotient, given by the sign of its error.
TrueDivError(num, d) ==
    RoundingDirection(num % d, d, MantissaBits - BitLength(num \div d),
                      (num \div d) % 2)

\* f"{num/d:.1f}": the double num/d printed with one decimal, correctly
\* rounded (half to even on the double's exact value); the result in tenths.
FixedOneDecimal(num, d) ==
    LET t  == (10 * num) \div d
        rr == (10 * num) % d
        e  == TrueDivError(num, d)
    IN  IF 2 * rr < d THEN t
        ELSE IF 2 * rr > d THEN t + 1
        ELSE IF e < 0 THEN t
        ELSE IF e > 0 THEN t + 1
        ELSE IF t % 2 = 0 THEN t ELSE t + 1

\* the text of a value given in tenths: "<int>.<digit>"
TenthsStr(t) == NatStr(t \div 10) \o <<".", DigitChar(t % 10)>>

\* a too-eager variant: truncates instead of rounding
FormatNumberTruncating(num) ==
    IF num >= Million
    THEN TenthsStr((10 * num) \div Million) \o <<"M">>
    ELSE IF num >= Thousand
    THEN TenthsStr((10 * num) \div Thousand) \o <<"K">>
    ELSE IntStr(num)

format_number(num) ==
    IF num >= Million
    THEN TenthsStr(FixedOneDecimal(num, Million)) \o <<"M">>
    ELSE IF num >= Thousand
    THEN TenthsStr(FixedOneDecimal(num, Thousand)) \o <<"K">>
    ELSE IntStr(num)

\* a variant with the first comparison strict
SuccessRateColorStrict(rate) ==
    IF rate > HighRate * 10 THEN "success-rate-high"
    ELSE IF rate >= MediumRate * 10 THEN "success-rate-medium"
    ELSE "success-rate-low"

\* rate in tenths of a percent
get_success_rate_color(rate) ==
    IF rate >= HighRate * 10 THEN "success-rate-high"
    ELSE IF rate >= MediumRate * 10 THEN "success-rate-medium"
    ELSE "success-rate-low"

\* f"{success_rate:.1f}%" for a rate in tenths of a percent
RatePercent(rate) == TenthsStr(rate) \o <<"%">>

(***************************************************************************)
(* JSON payloads and Python values.                                        *)
(***************************************************************************)
EmptyDict == <<>>

Payload(type, num, cats, items) ==
    [type |-> type, num |-> num, cats |-> cats, items |-> items]

None == Payload("None", EmptyDict, <<>>, <<>>)
Unbound == Payload("unbound", EmptyDict, <<>>, <<>>)
Dict(num, cats) == Payload("dict", num, cats, <<>>)
List(items) == Payload("list", EmptyDict, <<>>, items)

\* Python truthiness: None, {} and [] are falsy
Truthy(p) ==
    \/ p.type = "list" /\ Len(p.items) > 0
    \/ p.type = "dict" /\ (DOMAIN p.num # {} \/ Len(p.cats) > 0)

\* dict.get(key, default)
DictGet(d, key, default) == IF key \in DOMAIN d THEN d[key] ELSE default

Min(a, b) == IF a < b THEN a ELSE b

\* seq[:n]
Head_(seq, n) == SubSeq(seq, 1, Min(n, Len(seq)))

RECURSIVE InsertBy(_, _, _)
\* r inserted after the last row of the sorted `rows` whose key is <= r's
InsertBy(rows, r, key) ==
    IF rows = <<>> THEN <<r>>
    ELSE IF rows[Len(rows)][key] <= r[key] THEN Append(rows, r)
    ELSE Append(InsertBy(SubSeq(rows, 1, Len(rows) - 1), r, key), rows[Len(rows)])

RECURSIVE SortValues(_, _)
\* DataFrame.sort_values(key), ascending; the keys of a payload are distinct
SortValues(rows, key) ==
    IF rows = <<>> THEN <<>>
    ELSE InsertBy(SortValues(SubSeq(rows, 1, Len(rows) - 1), key), rows[Len(rows)], key)

LowerChars == <<"a", "b", "c", "d", "e", "f", "g", "h", "i", "j", "k", "l", "m",
                "n", "o", "p", "q", "r", "s", "t", "u", "v", "w", "x", "y", "z">>
UpperChars == <<"A", "B", "C", "D", "E", "F", "G", "H", "I", "J", "K", "L", "M",
                "N", "O", "P", "Q", "R", "S", "T", "U", "V", "W", "X", "Y", "Z">>

IsCased(c) == \E i \in 1..26 : c = LowerChars[i] \/ c = UpperChars[i]
ToUpper(c) == IF \E i \in 1..26 : c = LowerChars[i]
              THEN UpperChars[CHOOSE i \in 1..26 : c = LowerChars[i]] ELSE c
ToLower(c) == IF \E i \in 1..26 : c = UpperChars[i]
              THEN LowerChars[CHOOSE i \in 1..26 : c = UpperChars[i]] ELSE c

\* k.replace("_", " ").title()
CategoryLabel(k) ==
    LET spaced == [i \in 1..Len(k) |-> IF k[i] = "_" THEN " " ELSE k[i]]
    IN  [i \in 1..Len(k) |->
            IF i = 1 \/ ~IsCased(spaced[i - 1]) THEN ToUpper(spaced[i])
            ELSE ToLower(spaced[i])]

(***************************************************************************)
(* What the backend may answer to one GET.  exc is the exception           *)
(* requests.get raises ("" for none); body says how response.json() goes:  *)
(* "object" (a JSON object), "array" (valid JSON, not an object) or        *)
(* "malformed".                                                            *)
(***************************************************************************)
Response(exc, status, body, has_data, data) ==
    [exc |-> exc, status |-> status, body |-> body, has_data |-> has_data, data |-> data]

Raises(exc) == Response(exc, 0, "object", FALSE, None)
Status(code) == Response("", code, "object", FALSE, None)
Malformed == Response("", HttpOk, "malformed", FALSE, None)
NotAnObject == Response("", HttpOk, "array", FALSE, None)
NoDataKey == Response("", HttpOk, "object", FALSE, None)
Data(payload) == Response("", HttpOk, "object", TRUE, payload)

\* the classes an exception is an instance of (requests.exceptions and builtins)
Superclasses(exc) ==
    CASE exc = "ConnectionError" -> {"ConnectionError", "RequestException", "Exception"}
      [] exc = "ConnectTimeout"  -> {"ConnectTimeout", "ConnectionError", "Timeout",
                                     "RequestException", "Exception"}
      [] exc = "ReadTimeout"     -> {"ReadTimeout", "Timeout", "RequestException", "Exception"}
      [] exc = "JSONDecodeError" -> {"JSONDecodeError", "RequestException", "Exception"}
      [] exc = "AttributeError"  -> {"AttributeError", "Exception"}
      [] OTHER                   -> {exc}

IsInstance(exc, cls) == cls \in Superclasses(exc)

\* str(e)
ExcMessage(exc) ==
    CASE exc = "ConnectTimeout"  -> "connect timed out"
      [] exc = "ReadTimeout"     -> "Read timed out. (read timeout=10)"
      [] exc = "JSONDecodeError" -> "Expecting value: line 1 column 1 (char 0)"
      [] exc = "AttributeError"  -> "'list' object has no attribute 'get'"
      [] OTHER                   -> exc

(***************************************************************************)
(* Page elements: one per st.* call that draws something.                  *)
(***************************************************************************)
El(el, text, value) == [el |-> el, panel |-> "", text |-> text, value |-> value, cls |-> ""]

\* the elements drawn inside one container of the page
In(panel, elems) == [i \in 1..Len(elems) |-> [elems[i] EXCEPT !.panel = panel]]

\* the GET a call issues
Request(path, timeout) == [url |-> <<BACKEND_URL, path>>, timeout |-> timeout]

\* a request that asks for the summary whatever the endpoint
AnalyticsRequestOfSummary(endpoint) == Request(<<"/analytics/", "summary">>, FetchTimeout)

\* requests.get(f"{BACKEND_URL}/analytics/{endpoint}", timeout=10)
AnalyticsRequest(endpoint) == Request(<<"/analytics/", endpoint>>, FetchTimeout)

Outcome(raised, ret, diags) == [raised |-> raised, ret |-> ret, diags |-> diags]

\* the body of fetch_data's try
FetchTry(endpoint, response) ==
    IF response.exc # "" THEN Outcome(response.exc, None, <<>>)
    ELSE IF response.status = HttpOk
    THEN IF response.body = "malformed" THEN Outcome("JSONDecodeError", None, <<>>)
         ELSE IF response.body # "object" THEN Outcome("AttributeError", None, <<>>)
         ELSE Outcome("", IF response.has_data THEN response.data ELSE Dict(EmptyDict, <<>>), <<>>)
    ELSE Outcome("", None,
                 <<El("error", <<"Error fetching ", endpoint, ": ">> \o NatStr(response.status), <<>>)>>)

\* a fetcher without the catch-all handler
FetchDataNoCatchAll(endpoint, response) ==
    LET t == FetchTry(endpoint, response)
    IN  IF t.raised = "" THEN t
        ELSE IF IsInstance(t.raised, "ConnectionError")
        THEN Outcome("", None,
                     <<El("error", <<"Cannot connect to backend at ", BACKEND_URL,
                                     ". Make sure the server is running.">>, <<>>)>>)
        ELSE t

\* raised is the exception that leaves the function ("" when it returns)
fetch_data(endpoint, response) ==
    LET t == FetchTry(endpoint, response)
    IN  IF t.raised = "" THEN t
        ELSE IF IsInstance(t.raised, "ConnectionError")
        THEN Outcome("", None,
                     <<El("error", <<"Cannot connect to backend at ", BACKEND_URL,
                                     ". Make sure the server is running.">>, <<>>)>>)
        ELSE IF IsInstance(t.raised, "Exception")
        THEN Outcome("", None,
                     <<El("error", <<"Error fetching ", endpoint, ": ", ExcMessage(t.raised)>>, <<>>)>>)
        ELSE t

(***************************************************************************)
(* The panels of main(), each the elements it draws for its data.          *)
(***************************************************************************)
Markdown(text) == El("markdown", <<text>>, <<>>)
Metric(label, value) == El("metric", <<label>>, value)
Info(text) == El("info", <<text>>, <<>>)
Count(s, key) == format_number(DictGet(s.num, key, 0))

\* pd.DataFrame(rows).empty, for rows of the backend's schema
DfEmpty(rows) == Len(rows) = 0

HeaderPanel ==
    <<[El("markdown", <<"Cynchrony Analytics Dashboard">>, <<>>) EXCEPT !.cls = "main-header"]>>

\* the "Backend Status" block of the sidebar
HealthStatus(response) ==
    IF response.exc # "" THEN El("error", <<"Backend Offline">>, <<>>)
    ELSE IF response.status = HttpOk THEN El("success", <<"Backend Online">>, <<>>)
    ELSE El("error", <<"Backend Error">>, <<>>)

SidebarPanel(w, health) ==
    <<Markdown("### Settings"),
      El("checkbox", <<"Auto-refresh">>, <<w.auto_refresh>>),
      El("slider", <<"Refresh interval (seconds)">>, <<SliderMin, SliderMax, w.refresh_interval>>),
      Markdown("### Quick Links"),
      Markdown("### Backend Status"),
      HealthStatus(health),
      El("button", <<"Refresh Now">>, <<w.refresh_now>>)>>

SummaryAbsentPanel ==
    <<El("warning", <<"Unable to fetch analytics data. Please check the backend connection.">>, <<>>),
      El("info", <<"Trying to connect to: ", BACKEND_URL>>, <<>>)>>

OverviewPanel(s) ==
    <<Markdown("### Overview"),
      Metric("Total API Calls", Count(s, "total_api_calls")),
      Metric("Success Rate", RatePercent(DictGet(s.num, "success_rate", DefaultSuccessRate * 10))),
      Metric("Total Errors", Count(s, "total_errors")),
      Metric("AI Chat Calls", Count(s, "ai_chat_calls")),
      Metric("AI Generation", Count(s, "ai_generation_calls"))>>

ProcessingPanel(s) ==
    <<Markdown("### Processing Operations"),
      Metric("PDF Processing", Count(s, "pdf_processing")),
      Metric("Image Processing", Count(s, "image_processing")),
      Metric("Video Processing", Count(s, "video_processing")),
      Metric("Audio Processing", Count(s, "audio_processing")),
      Metric("Code Executions", Count(s, "code_executions")),
      Metric("File Uploads", Count(s, "file_uploads"))>>

CategoryPanel(s) ==
    <<Markdown("### Category Breakdown"),
      IF Len(s.cats) > 0
      THEN El("chart", <<"bar", "Count", "Category">>,
              SortValues([i \in 1..Len(s.cats) |->
                            [Category |-> CategoryLabel(s.cats[i].k), Count |-> s.cats[i].v]],
                         "Count"))
      ELSE Info("No category data available yet.")>>

\* a panel that draws nothing when there is no endpoint data
TopEndpointsPanelSilent(data) ==
    <<Markdown("### Top Endpoints")>> \o
    IF Truthy(data)
    THEN <<El("chart", <<"bar", "count", "endpoint", "success_rate">>, Head_(data.items, TopN))>>
    ELSE <<>>

TopEndpointsPanel(data) ==
    <<Markdown("### Top Endpoints")>> \o
    IF Truthy(data)
    THEN IF ~DfEmpty(Head_(data.items, TopN))
         THEN <<El("chart", <<"bar", "count", "endpoint", "success_rate">>, Head_(data.items, TopN))>>
         ELSE <<>>
    ELSE <<Info("No endpoint data available yet.")>>

HourlyPanel(data) ==
    <<Markdown("### Hourly Activity (Last 24 Hours)")>> \o
    IF Truthy(data)
    THEN IF ~DfEmpty(data.items)
         THEN <<El("chart", <<"scatter", "hour", "count", "success_count", "error_count">>, data.items)>>
         ELSE <<>>
    ELSE <<Info("No hourly data available yet.")>>

BusinessPanel(s) ==
    <<Markdown("### Business Metrics"),
      Metric("Auth Events", Count(s, "authentication_events")),
      Metric("Payment Events", Count(s, "payment_events")),
      Metric("Assessments", Count(s, "assessment_events")),
      Metric("Interviews", Count(s, "interview_events")),
      Metric("Resume Ops", Count(s, "resume_operations"))>>

NoErrors == El("success", <<"No errors recorded!">>, <<>>)

ErrorsPanel(data) ==
    <<Markdown("### Recent Errors")>> \o
    IF Truthy(data)
    THEN IF ~DfEmpty(Head_(data.items, RecentN))
         THEN <<El("dataframe", <<"endpoint", "method", "status_code", "error", "timestamp">>,
                   Head_(data.items, RecentN))>>
         ELSE <<NoErrors>>
    ELSE <<NoErrors>>

DailyPanel(data) ==
    <<Markdown("### Daily Statistics (Last 30 Days)")>> \o
    IF Truthy(data)
    THEN IF ~DfEmpty(data.items)
         THEN <<El("chart", <<"stacked bar", "date", "successful_calls", "failed_calls">>,
                   SortValues(data.items, "date"))>>
         ELSE <<>>
    ELSE <<Info("No daily data available yet.")>>

\* the footer's timestamp is the wall clock's, which the model leaves out
FooterPanel ==
    <<El("markdown", <<"Cynchrony Analytics Dashboard | Last updated: ", "Connected to: ", BACKEND_URL>>, <<>>)>>

(***************************************************************************)
(* The answers the backend gives in the model, per endpoint.               *)
(***************************************************************************)
SpecExampleSummary ==
    Dict([total_api_calls |-> 1500, success_rate |-> 972, total_errors |-> 10], <<>>)

BusySummary ==
    Dict([total_api_calls |-> 2500000, success_rate |-> 949, total_errors |-> 999950,
          ai_chat_calls |-> 42, pdf_processing |-> 1250, payment_events |-> 1050],
         <<[k |-> <<"p", "d", "f", "_", "p", "r", "o", "c", "e", "s", "s", "i", "n", "g">>, v |-> 9],
           [k |-> <<"a", "i", "_", "c", "h", "a", "t">>, v |-> 4]>>)

FailingSummary ==
    Dict([total_api_calls |-> 999, success_rate |-> 799, total_errors |-> 1000000], <<>>)

SummaryResponses ==
    {Raises("ConnectionError"), Raises("ConnectTimeout"), Raises("ReadTimeout"),
     Status(500), Status(404), Malformed, NotAnObject, Data(None), NoDataKey,
     Data(SpecExampleSummary), Data(BusySummary), Data(FailingSummary)}

\* n endpoint stats, most called first / least called first
RankedEndpoints(n) ==
    [i \in 1..n |-> [endpoint |-> i, count |-> (n + 1 - i) * 100, success_rate |-> 1000 - 10 * i]]
UnrankedEndpoints(n) ==
    [i \in 1..n |-> [endpoint |-> i, count |-> i * 100, success_rate |-> 1000 - 10 * i]]

EndpointsResponses ==
    {Raises("ConnectionError"), Status(500), Data(None), Data(List(<<>>)),
     Data(List(RankedEndpoints(2))), Data(List(RankedEndpoints(MaxEndpoints))),
     Data(List(UnrankedEndpoints(MaxEndpoints)))}

HourlyRows(n) ==
    [i \in 1..n |-> [hour |-> i, count |-> 10 * i, success_count |-> 9 * i, error_count |-> i]]

HourlyResponses ==
    {Raises("ReadTimeout"), Malformed, Data(List(<<>>)), Data(List(HourlyRows(MaxBuckets)))}

ErrorRows(n) ==
    [i \in 1..n |-> [endpoint |-> i, method |-> "GET", status_code |-> 500,
                     error |-> "boom", timestamp |-> n + 1 - i]]

ErrorsResponses ==
    {Status(503), NotAnObject, Data(List(<<>>)), Data(List(ErrorRows(2))),
     Data(List(ErrorRows(MaxErrors)))}

\* daily buckets, latest date first
DailyRows(n) ==
    [i \in 1..n |-> [date |-> n + 1 - i, successful_calls |-> 5 * i, failed_calls |-> i]]

DailyResponses ==
    {Raises("ConnectTimeout"), NoDataKey, Data(List(<<>>)), Data(List(DailyRows(MaxBuckets)))}

HealthResponses == {Status(HttpOk), Status(500), Raises("ConnectionError")}

\* the positions the operator may try to drag the slider to
SliderTries == {SliderMin - 1, SliderMin, SliderMax, SliderMax + 1}

(***************************************************************************)
(* State.                                                                  *)
(***************************************************************************)
VARIABLES
    pc,                \* where the script run stands
    widgets,           \* the session's widget state
    auto_refresh,      \* main's local (line 121)
    refresh_interval,  \* main's local (line 122)
    summary, endpoints, hourly, errors, daily,   \* main's locals
    page,              \* the elements the current run has drawn
    requests,          \* the GETs the current run has issued
    last_fetch,        \* the latest fetch_data call: endpoint, response, result
    slept,             \* how long the current run has slept
    fn, arg, result    \* a helper applied on its own: which, to what, giving what

vars == <<pc, widgets, auto_refresh, refresh_interval, summary, endpoints, hourly,
          errors, daily, page, requests, last_fetch, slept, fn, arg, result>>

locals == <<auto_refresh, refresh_interval, summary, endpoints, hourly, errors, daily>>
helper == <<fn, arg, result>>

NoFetch == [endpoint |-> "", response |-> NoDataKey, result |-> Outcome("", None, <<>>)]

Widgets(auto, interval, now, drawn) ==
    [auto_refresh |-> auto, refresh_interval |-> interval, refresh_now |-> now, drawn |-> drawn]

\* a script run starts: nothing drawn, nothing fetched, no local bound
StartRun ==
    /\ pc' = "main"
    /\ auto_refresh' = TRUE
    /\ refresh_interval' = REFRESH_INTERVAL
    /\ summary' = Unbound
    /\ endpoints' = Unbound
    /\ hourly' = Unbound
    /\ errors' = Unbound
    /\ daily' = Unbound
    /\ page' = <<>>
    /\ requests' = <<>>
    /\ last_fetch' = NoFetch
    /\ slept' = 0

DashboardInit ==
    /\ pc = "main"
    /\ widgets = Widgets(TRUE, REFRESH_INTERVAL, FALSE, FALSE)
    /\ auto_refresh = TRUE
    /\ refresh_interval = REFRESH_INTERVAL
    /\ summary = Unbound
    /\ endpoints = Unbound
    /\ hourly = Unbound
    /\ errors = Unbound
    /\ daily = Unbound
    /\ page = <<>>
    /\ requests = <<>>
    /\ last_fetch = NoFetch
    /\ slept = 0

Helper(name, applied) == [name |-> name, applied |-> applied]

Init ==
    /\ DashboardInit
    /\ fn = Helper("none", FALSE)
    /\ arg = 0
    /\ result = <<>>

(***************************************************************************)
(* main(), one action per stretch of the script between two fetches.       *)
(***************************************************************************)
Fetched(endpoint, response) ==
    [endpoint |-> endpoint, response |-> response, result |-> fetch_data(endpoint, response)]

\* an exception that leaves fetch_data ends the run with Streamlit's traceback
Crash(panel, exc) ==
    /\ pc' = "crashed"
    /\ page' = page \o In(panel, <<El("exception", <<exc>>, <<>>)>>)

\* lines 112-141: header, sidebar, health probe, "Refresh Now"
Sidebar ==
    /\ pc = "main"
    /\ \E health \in HealthResponses :
        IF widgets.refresh_now
        THEN \* st.rerun(): the click is consumed and the script starts over
             /\ StartRun
             /\ widgets' = [widgets EXCEPT !.refresh_now = FALSE, !.drawn = TRUE]
        ELSE /\ pc' = "summary"
             /\ auto_refresh' = widgets.auto_refresh
             /\ refresh_interval' = widgets.refresh_interval
             /\ page' = In("header", HeaderPanel) \o In("sidebar", SidebarPanel(widgets, health))
             /\ requests' = Append(requests, Request(<<"/health">>, HealthTimeout))
             /\ widgets' = [widgets EXCEPT !.drawn = TRUE]
             /\ UNCHANGED <<summary, endpoints, hourly, errors, daily, last_fetch, slept>>
    /\ UNCHANGED helper

\* where main goes after the warning of an absent summary, were it not to return
SummaryAbsentFallsThrough == "autorefresh"
SummaryAbsentExit == "returned"

\* lines 143-267: the summary fetch, the warning or the summary's panels
FetchSummary ==
    /\ pc = "summary"
    /\ \E response \in SummaryResponses :
        LET f == Fetched("summary", response) IN
        /\ requests' = Append(requests, AnalyticsRequest("summary"))
        /\ last_fetch' = f
        /\ IF f.result.raised # ""
           THEN Crash("main", f.result.raised) /\ UNCHANGED summary
           ELSE /\ summary' = f.result.ret
                /\ IF f.result.ret = None
                   THEN /\ page' = page \o In("main", f.result.diags \o SummaryAbsentPanel)
                        /\ pc' = SummaryAbsentExit
                   ELSE /\ page' = page \o In("main", f.result.diags)
                                        \o In("overview", OverviewPanel(f.result.ret))
                                        \o In("processing", ProcessingPanel(f.result.ret))
                                        \o In("category", CategoryPanel(f.result.ret))
                        /\ pc' = "endpoints"
    /\ UNCHANGED <<widgets, auto_refresh, refresh_interval, endpoints, hourly, errors, daily, slept>>
    /\ UNCHANGED helper

\* lines 269-293
TopEndpoints ==
    /\ pc = "endpoints"
    /\ \E response \in EndpointsResponses :
        LET f == Fetched("endpoints", response) IN
        /\ requests' = Append(requests, AnalyticsRequest("endpoints"))
        /\ last_fetch' = f
        /\ IF f.result.raised # ""
           THEN Crash("endpoints", f.result.raised) /\ UNCHANGED endpoints
           ELSE /\ endpoints' = f.result.ret
                /\ page' = page \o In("endpoints", f.result.diags \o TopEndpointsPanel(f.result.ret))
                /\ pc' = "hourly"
    /\ UNCHANGED <<widgets, auto_refresh, refresh_interval, summary, hourly, errors, daily, slept>>
    /\ UNCHANGED helper

\* lines 295-377: the hourly series, then the business metrics of the summary
Hourly ==
    /\ pc = "hourly"
    /\ \E response \in HourlyResponses :
        LET f == Fetched("hourly", response) IN
        /\ requests' = Append(requests, AnalyticsRequest("hourly"))
        /\ last_fetch' = f
        /\ IF f.result.raised # ""
           THEN Crash("hourly", f.result.raised) /\ UNCHANGED hourly
           ELSE /\ hourly' = f.result.ret
                /\ page' = page \o In("hourly", f.result.diags \o HourlyPanel(f.result.ret))
                                \o In("business", BusinessPanel(summary))
                /\ pc' = "errors"
    /\ UNCHANGED <<widgets, auto_refresh, refresh_interval, summary, endpoints, errors, daily, slept>>
    /\ UNCHANGED helper

\* lines 379-402
RecentErrors ==
    /\ pc = "errors"
    /\ \E response \in ErrorsResponses :
        LET f == Fetched("errors", response) IN
        /\ requests' = Append(requests, AnalyticsRequest("errors"))
        /\ last_fetch' = f
        /\ IF f.result.raised # ""
           THEN Crash("errors", f.result.raised) /\ UNCHANGED errors
           ELSE /\ errors' = f.result.ret
                /\ page' = page \o In("errors", f.result.diags \o ErrorsPanel(f.result.ret))
                /\ pc' = "daily"
    /\ UNCHANGED <<widgets, auto_refresh, refresh_interval, summary, endpoints, hourly, daily, slept>>
    /\ UNCHANGED helper

\* lines 404-451: the daily chart and the footer
Daily ==
    /\ pc = "daily"
    /\ \E response \in DailyResponses :
        LET f == Fetched("daily", response) IN
        /\ requests' = Append(requests, AnalyticsRequest("daily"))
        /\ last_fetch' = f
        /\ IF f.result.raised # ""
           THEN Crash("daily", f.result.raised) /\ UNCHANGED daily
           ELSE /\ daily' = f.result.ret
                /\ page' = page \o In("daily", f.result.diags \o DailyPanel(f.result.ret))
                                \o In("footer", FooterPanel)
                /\ pc' = "autorefresh"
    /\ UNCHANGED <<widgets, auto_refresh, refresh_interval, summary, endpoints, hourly, errors, slept>>
    /\ UNCHANGED helper

\* a check that sleeps whatever the checkbox says
AutoRefreshAlways(auto) == "sleeping"

\* line 454: if auto_refresh
AutoRefreshTarget(auto) == IF auto THEN "sleeping" ELSE "returned"

AutoRefresh ==
    /\ pc = "autorefresh"
    /\ pc' = AutoRefreshTarget(auto_refresh)
    /\ UNCHANGED <<widgets, locals, page, requests, last_fetch, slept>>
    /\ UNCHANGED helper

\* a sleep of the configured default instead of the slider's value
SleepDefault(interval) == REFRESH_INTERVAL

\* the argument of time.sleep
SleepTime(interval) == interval

\* line 455: time.sleep(refresh_interval) runs to its end
Sleep ==
    /\ pc = "sleeping"
    /\ slept' = SleepTime(refresh_interval)
    /\ pc' = "rerun"
    /\ UNCHANGED <<widgets, locals, page, requests, last_fetch>>
    /\ UNCHANGED helper

\* line 456: st.rerun()
Rerun ==
    /\ pc = "rerun"
    /\ StartRun
    /\ UNCHANGED widgets
    /\ UNCHANGED helper

(***************************************************************************)
(* The operator.  A widget the sidebar has drawn can be used at any time;  *)
(* Streamlit then stops the run under way and runs the script again.       *)
(***************************************************************************)
\* a button that is gone once the script has returned
RefreshNowWhileRunning == widgets.drawn /\ pc # "returned"

\* the "Refresh Now" button is on the page
RefreshNowAvailable == widgets.drawn

ClickRefreshNow ==
    /\ RefreshNowAvailable
    /\ StartRun
    /\ widgets' = [widgets EXCEPT !.refresh_now = TRUE]
    /\ UNCHANGED helper

ToggleAutoRefresh ==
    /\ widgets.drawn
    /\ StartRun
    /\ widgets' = [widgets EXCEPT !.auto_refresh = ~widgets.auto_refresh, !.refresh_now = FALSE]
    /\ UNCHANGED helper

\* a slider without its limits
SliderAccepts(v) == TRUE

\* st.slider(label, 10, 120, ...): the positions the slider has
SliderRange(v) == v \in SliderMin..SliderMax

MoveSlider ==
    /\ widgets.drawn
    /\ \E v \in SliderTries :
        /\ SliderRange(v)
        /\ v # widgets.refresh_interval
        /\ widgets' = [widgets EXCEPT !.refresh_interval = v, !.refresh_now = FALSE]
    /\ StartRun
    /\ UNCHANGED helper

Operator == ClickRefreshNow \/ ToggleAutoRefresh \/ MoveSlider

Script == Sidebar \/ FetchSummary \/ TopEndpoints \/ Hourly \/ RecentErrors \/ Daily
          \/ AutoRefresh \/ Sleep \/ Rerun

Next == Script \/ Operator

Spec == Init /\ [][Next]_vars

(***************************************************************************)
(* The helpers applied on their own, to inputs main's data does not reach. *)
(***************************************************************************)
Window(c) == (c - FmtWindow)..(c + FmtWindow)

\* integers around the thresholds, the spec's examples, and the values whose
\* quotient lies halfway between two one-decimal numbers
FormatInputs ==
    Window(0) \cup Window(42) \cup Window(Thousand) \cup Window(2500)
    \cup Window(999950) \cup Window(Million) \cup Window(1500000)
    \cup {1050 + 100 * k : k \in 0..(10 * FmtWindow)}
    \cup {1050000 + 100000 * k : k \in 0..(10 * FmtWindow)}
    \cup {123456789, 200000000}

\* rates in tenths of a percent
RateInputs == (-10)..(10 * MaxRatePct)

HelperInit ==
    /\ DashboardInit
    /\ \/ fn = Helper("format_number", FALSE) /\ arg \in FormatInputs
       \/ fn = Helper("get_success_rate_color", FALSE) /\ arg \in RateInputs
    /\ result = <<>>

ApplyFormatNumber ==
    /\ fn = Helper("format_number", FALSE)
    /\ result' = format_number(arg)
    /\ fn' = Helper("format_number", TRUE)
    /\ UNCHANGED <<pc, widgets, locals, page, requests, last_fetch, slept, arg>>

ApplyGetSuccessRateColor ==
    /\ fn = Helper("get_success_rate_color", FALSE)
    /\ result' = get_success_rate_color(arg)
    /\ fn' = Helper("get_success_rate_color", TRUE)
    /\ UNCHANGED <<pc, widgets, locals, page, requests, last_fetch, slept, arg>>

HelperNext == ApplyFormatNumber \/ ApplyGetSuccessRateColor

SpecHelpers == HelperInit /\ [][HelperNext]_vars

(***************************************************************************)
(* Reading the state.                                                      *)
(***************************************************************************)
IsFetch(r) == r.url[2][1] = "/analytics/"
FetchCalls == SelectSeq(requests, IsFetch)
FetchedEndpoints == [i \in 1..Len(FetchCalls) |-> FetchCalls[i].url[2][2]]

FetchOrder == <<"summary", "endpoints", "hourly", "errors", "daily">>
Datasets == {"endpoints", "hourly", "errors", "daily"}

\* the elements of one panel, and those among them that show the panel's data
\* (not its heading, not a fetch diagnostic)
PanelOf(p) == SelectSeq(page, LAMBDA e : e.panel = p)
Shown(p) == SelectSeq(page, LAMBDA e : e.panel = p /\ e.el \notin {"markdown", "error"})
CountOf(kinds) == Len(SelectSeq(page, LAMBDA e : e.el \in kinds))

LocalOf(d) ==
    CASE d = "summary" -> summary
      [] d = "endpoints" -> endpoints
      [] d = "hourly" -> hourly
      [] d = "errors" -> errors
      [] d = "daily" -> daily

\* the run has returned after the warning / after the whole dashboard
Warned == pc = "returned" /\ summary = None
Ended == pc = "returned" /\ summary # None
Rendered == pc \in {"autorefresh", "sleeping", "rerun"} \/ Ended

\* the run is past the panel of dataset d
Position(p) ==
    CASE p = "main" -> 0
      [] p = "summary" -> 1
      [] p = "endpoints" -> 2
      [] p = "hourly" -> 3
      [] p = "errors" -> 4
      [] p = "daily" -> 5
      [] OTHER -> 6
Past(d) == summary \notin {None, Unbound} /\ pc # "crashed" /\ Position(pc) > Position(d)

Fresh ==
    /\ page = <<>> /\ requests = <<>> /\ slept = 0 /\ last_fetch = NoFetch
    /\ summary = Unbound /\ endpoints = Unbound /\ hourly = Unbound
    /\ errors = Unbound /\ daily = Unbound

(***************************************************************************)
(* Reading a formatted number back.                                        *)
(***************************************************************************)
IsDigit(c) == \E d \in 0..9 : DigitChars[d + 1] = c
DigitValue(c) == CHOOSE d \in 0..9 : DigitChars[d + 1] = c

\* a natural number in decimal, without leading zeros
IsNatText(t) ==
    /\ Len(t) >= 1
    /\ \A i \in 1..Len(t) : IsDigit(t[i])
    /\ Len(t) > 1 => t[1] # "0"

RECURSIVE NatValue(_)
NatValue(t) == IF t = <<>> THEN 0
               ELSE 10 * NatValue(SubSeq(t, 1, Len(t) - 1)) + DigitValue(t[Len(t)])

\* "<natural>.<digit><suffix>"
IsSuffixedDecimal(t, suffix) ==
    /\ Len(t) >= 4
    /\ t[Len(t)] = suffix
    /\ IsDigit(t[Len(t) - 1])
    /\ t[Len(t) - 2] = "."
    /\ IsNatText(SubSeq(t, 1, Len(t) - 3))

\* its value in tenths
TenthsValue(t) == 10 * NatValue(SubSeq(t, 1, Len(t) - 3)) + DigitValue(t[Len(t) - 1])

Abs(x) == IF x < 0 THEN -x ELSE x

(***************************************************************************)
(* Properties.                                                             *)
(***************************************************************************)

\* C1: fetch_data never raises to its caller.  Whenever the answer is not an
\* HTTP 200 with a JSON object as body (another status, a connection failure, a
\* timeout, malformed JSON, JSON that is no object) it returns None and has
\* surfaced exactly one error diagnostic, which is on the page; only for a 200
\* with a parsable body does it return what is under "data" (an empty object
\* when the key is missing), and then without a diagnostic.
FetchNeverRaises ==
    last_fetch.endpoint # "" =>
        LET r == last_fetch.response
            o == last_fetch.result
            ok == r.exc = "" /\ r.status = 200 /\ r.body = "object"
        IN  /\ o.raised = ""
            /\ pc # "crashed"
            /\ ~ok => /\ o.ret = None
                      /\ Len(o.diags) = 1
                      /\ o.diags[1].el = "error"
                      /\ \E i \in 1..Len(page) :
                            page[i].el = "error" /\ page[i].text = o.diags[1].text
            /\ ok => /\ o.diags = <<>>
                     /\ o.ret = IF r.has_data THEN r.data ELSE Dict(EmptyDict, <<>>)
            /\ o.ret # None => ok

\* C1 witness: the hourly fetch met malformed JSON, returned None with its one
\* diagnostic, and main went on to the next panel.
FetchFailedAndRunWentOn ==
    /\ pc = "errors"
    /\ last_fetch.endpoint = "hourly"
    /\ last_fetch.response = Malformed
    /\ last_fetch.result.ret = None
    /\ Len(last_fetch.result.diags) = 1

\* C2: a run whose summary fetch is absent draws exactly one warning and no
\* metric, chart or table, and returns: with auto-refresh on or off it never
\* sleeps and never reruns by itself; only the operator starts the next run.
SummaryAbsentEndsTheCycle ==
    /\ [](Warned => /\ CountOf({"warning"}) = 1
                    /\ CountOf({"metric", "chart", "dataframe"}) = 0
                    /\ slept = 0
                    /\ FetchedEndpoints = <<"summary">>)
    /\ [][pc = "summary" /\ summary' = None => pc' = "returned"]_vars
    /\ [][Warned => pc' = "main" /\ widgets' # widgets]_vars

\* C2 witness: the warning state with auto-refresh enabled
WarnedWithAutoRefreshOn ==
    /\ Warned
    /\ auto_refresh
    /\ widgets.auto_refresh
    /\ CountOf({"warning"}) = 1

\* C3: after a full render with auto-refresh on, the run sleeps, for the
\* interval the slider holds (always within 10..120), and then reruns the
\* script from the top with the same widget state and nothing kept from the run
\* before; with auto-refresh off it returns without sleeping, and from there
\* only the operator starts a run.
AutoRefreshLoop ==
    /\ [](pc \in {"sleeping", "rerun"} =>
            /\ auto_refresh
            /\ FetchedEndpoints = FetchOrder
            /\ refresh_interval \in 10..120
            /\ refresh_interval = widgets.refresh_interval)
    /\ [](pc = "rerun" => slept = widgets.refresh_interval)
    /\ [](pc # "main" => /\ auto_refresh = widgets.auto_refresh
                          /\ refresh_interval = widgets.refresh_interval)
    /\ [](Ended => ~auto_refresh /\ slept = 0)
    /\ [][pc = "autorefresh" /\ widgets' = widgets =>
            pc' = IF auto_refresh THEN "sleeping" ELSE "returned"]_vars
    /\ [][pc = "sleeping" /\ widgets' = widgets => pc' = "rerun"]_vars
    /\ [][pc = "rerun" => pc' = "main" /\ Fresh']_vars
    /\ [][Ended => pc' = "main" /\ widgets' # widgets]_vars

\* C3 witness: a run that slept the 120 the operator had set
SleptTheSelectedInterval ==
    /\ pc = "rerun"
    /\ widgets.refresh_interval = 120
    /\ slept = 120
    /\ REFRESH_INTERVAL # 120

\* a click on "Refresh Now" that starts a run
RefreshStartsRun == ClickRefreshNow /\ pc' = "main" /\ Fresh'

\* the script takes its next step from the top: on to the summary fetch, or, for
\* the run a click started, over again
RunGoesOn == Sidebar /\ pc' \in {"main", "summary"}

\* C4: the loop has no terminal state.  While the script is rendering, sleeping,
\* about to rerun, returned after the dashboard or returned after the warning,
\* "Refresh Now" can be clicked and the click starts a run from the top; and a
\* run at the top always goes on towards its first fetch.
NoTerminalState ==
    /\ pc # "main" => ENABLED RefreshStartsRun
    /\ pc = "main" => ENABLED RunGoesOn
    /\ pc = "main" /\ widgets.refresh_now => Fresh

\* C4 witness: the warning state, from which a click starts a run
WarnedAndRefreshNowClickable ==
    /\ Warned
    /\ widgets.drawn
    /\ ENABLED RefreshStartsRun

\* the panel's placeholder, as the page shows it
Placeholder(d) ==
    CASE d = "endpoints" -> [el |-> "info", text |-> <<"No endpoint data available yet.">>]
      [] d = "hourly" -> [el |-> "info", text |-> <<"No hourly data available yet.">>]
      [] d = "daily" -> [el |-> "info", text |-> <<"No daily data available yet.">>]
      [] d = "errors" -> [el |-> "success", text |-> <<"No errors recorded!">>]

\* the most rows the panel shows
RowCap(d) == CASE d = "endpoints" -> 10 [] d = "errors" -> 20 [] OTHER -> Len(LocalOf(d).items)

\* C5: with the summary present, every dataset's panel depends on that dataset
\* alone: absent or empty, the panel shows its placeholder; otherwise it shows
\* its one chart or table of that dataset's rows, whatever the other fetches
\* gave; and whatever a fetch gives, the run goes on to the next panel and
\* fetch, through to the footer.
PanelsFailInIsolation ==
    /\ [](\A d \in Datasets : Past(d) =>
            LET data == LocalOf(d)
                shown == Shown(d)
            IN  /\ Len(shown) = 1
                /\ ~Truthy(data) =>
                      /\ shown[1].el = Placeholder(d).el
                      /\ shown[1].text = Placeholder(d).text
                /\ Truthy(data) =>
                      /\ shown[1].el = IF d = "errors" THEN "dataframe" ELSE "chart"
                      /\ Len(shown[1].value) = Min(Len(data.items), RowCap(d))
                      /\ \A i \in 1..Len(shown[1].value) :
                            \E j \in 1..Len(data.items) : shown[1].value[i] = data.items[j])
    /\ [](Rendered => /\ FetchedEndpoints = FetchOrder
                      /\ Len(PanelOf("business")) = 6
                      /\ Len(PanelOf("footer")) = 1)
    /\ [][Position(pc) \in 1..5 /\ widgets' = widgets /\ summary' # None =>
            Position(pc') = Position(pc) + 1]_vars

\* C5 witness: a full render in which the endpoints fetch failed and the hourly
\* and daily charts and the error table are drawn all the same
RenderedWithoutEndpoints ==
    /\ Rendered
    /\ endpoints = None
    /\ Shown("endpoints")[1].el = "info"
    /\ Shown("hourly")[1].el = "chart"
    /\ Shown("errors")[1].el = "dataframe"
    /\ Shown("daily")[1].el = "chart"

\* the script run is over, or asleep before its rerun
CycleOver == pc \in {"returned", "sleeping", "rerun"}

\* C6, as claimed: every cycle issues exactly five fetch calls, one for each of
\* summary, endpoints, hourly, errors and daily.
EveryCycleIssuesFiveFetches ==
    CycleOver =>
        /\ Len(FetchedEndpoints) = 5
        /\ \A i \in 1..5 : \E j \in 1..5 : FetchedEndpoints[j] = FetchOrder[i]

\* C6, amended: a cycle whose summary fetch is present issues exactly five fetch
\* calls, for summary, endpoints, hourly, errors and daily in that order, each
\* once, each a GET of its own endpoint with the 10-unit timeout, and each
\* local holds what its own call returned; a cycle whose summary fetch is
\* absent issues the summary call only.  No call is issued twice in a cycle.
FetchesPerCycle ==
    /\ CycleOver /\ summary # None => FetchedEndpoints = FetchOrder
    /\ CycleOver /\ summary = None => FetchedEndpoints = <<"summary">>
    /\ Len(FetchedEndpoints) <= 5
    /\ \A i \in 1..Len(FetchCalls) :
          FetchCalls[i] = [url |-> <<BACKEND_URL, <<"/analytics/", FetchOrder[i]>>>>, timeout |-> 10]
    /\ last_fetch.endpoint # "" /\ pc # "crashed" =>
          /\ last_fetch.endpoint = FetchedEndpoints[Len(FetchedEndpoints)]
          /\ LocalOf(last_fetch.endpoint) = last_fetch.result.ret
    /\ \A d \in Datasets \cup {"summary"} :
          LocalOf(d) # Unbound <=> \E i \in 1..Len(FetchedEndpoints) : FetchedEndpoints[i] = d

\* C6 witness: a finished cycle with five fetches although the endpoints fetch
\* returned None
FiveFetchesDespiteAbsentEndpoints ==
    /\ Ended
    /\ endpoints = None
    /\ FetchedEndpoints = FetchOrder

\* text of a metric of the overview
MetricValue(label) ==
    LET m == SelectSeq(page, LAMBDA e : e.el = "metric" /\ e.text = <<label>>)
    IN  m[1].value

\* C7: format_number(n) ends in "M" exactly when n >= 1,000,000 and in "K"
\* exactly when 1,000 <= n < 1,000,000, the number before the suffix being a
\* decimal with one digit after the point that is a nearest such decimal to
\* n/1,000,000 (n/1,000); below 1,000, zero and negatives included, it is the
\* decimal text of n.  1,500,000 gives "1.5M", 2,500 "2.5K", 42 "42".
FormatNumberAbbreviates ==
    fn = Helper("format_number", TRUE) =>
        /\ arg >= 1000000 =>
              /\ IsSuffixedDecimal(result, "M")
              /\ Abs(TenthsValue(result) * 100000 - arg) <= 50000
        /\ arg >= 1000 /\ arg < 1000000 =>
              /\ IsSuffixedDecimal(result, "K")
              /\ Abs(TenthsValue(result) * 100 - arg) <= 50
        /\ arg >= 0 /\ arg < 1000 => IsNatText(result) /\ NatValue(result) = arg
        /\ arg < 0 =>
              /\ result[1] = "-"
              /\ IsNatText(Tail(result))
              /\ NatValue(Tail(result)) = -arg
        /\ arg = 1500000 => result = <<"1", ".", "5", "M">>
        /\ arg = 2500 => result = <<"2", ".", "5", "K">>
        /\ arg = 42 => result = <<"4", "2">>

\* C7 witness: 999,950, whose thousandth part lies halfway between two
\* one-decimal numbers, has been formatted
FormattedAHalfwayValue ==
    /\ fn = Helper("format_number", TRUE)
    /\ arg = 999950
    /\ result = <<"1", "0", "0", "0", ".", "0", "K">>

\* C8, as claimed: for a present summary the overview shows total calls as
\* format_number(total_api_calls) and the success rate to one decimal with a
\* percent sign, styled with the class get_success_rate_color gives it; with
\* the four datasets empty every chart panel shows its placeholder and the
\* error table its empty-state message.
OverviewStyledBySuccessRate ==
    Rendered =>
        LET rate == DictGet(summary.num, "success_rate", 1000)
            shown == SelectSeq(page, LAMBDA e : e.el = "metric" /\ e.text = <<"Success Rate">>)
        IN  /\ MetricValue("Total API Calls") = format_number(DictGet(summary.num, "total_api_calls", 0))
            /\ Len(shown) = 1
            /\ shown[1].value = NatStr(rate \div 10) \o <<".", DigitChar(rate % 10), "%">>
            /\ shown[1].cls = get_success_rate_color(rate)
            /\ (\A d \in Datasets : LocalOf(d) = List(<<>>)) =>
                  \A d \in Datasets : /\ Len(Shown(d)) = 1
                                      /\ Shown(d)[1].el = Placeholder(d).el
                                      /\ Shown(d)[1].text = Placeholder(d).text

\* the rows of the top-endpoints chart
TopEndpointsShown == IF Shown("endpoints") = <<>> THEN <<>> ELSE Shown("endpoints")[1].value

\* C9, as claimed: the top-endpoints panel shows at most 10 endpoint stats, and
\* when more than 10 are fetched no stat left out has a higher call count than
\* one that is shown, whatever the order of the backend's list.
TopEndpointsAreTheMostCalled ==
    Past("endpoints") /\ Truthy(endpoints) =>
        /\ Len(TopEndpointsShown) <= 10
        /\ Len(endpoints.items) > 10 =>
              /\ Len(TopEndpointsShown) = 10
              /\ \A i \in 1..Len(endpoints.items) :
                    (\A k \in 1..10 : TopEndpointsShown[k] # endpoints.items[i]) =>
                        \A k \in 1..10 : TopEndpointsShown[k].count >= endpoints.items[i].count

\* C10: get_success_rate_color gives every rate exactly one of three classes:
\* high from 95 up, medium from 80 up to but not including 95, low below 80;
\* 95 is high, 94.9 medium, 80 medium, 79.9 low.
SuccessRateClasses ==
    fn = Helper("get_success_rate_color", TRUE) =>
        /\ result \in {"success-rate-high", "success-rate-medium", "success-rate-low"}
        /\ result = "success-rate-high" <=> arg >= 950
        /\ result = "success-rate-medium" <=> arg >= 800 /\ arg < 950
        /\ result = "success-rate-low" <=> arg < 800
        /\ arg = 950 => result = "success-rate-high"
        /\ arg = 949 => result = "success-rate-medium"
        /\ arg = 800 => result = "success-rate-medium"
        /\ arg = 799 => result = "success-rate-low"

\* C10 witness: 94.9 has been classified, as medium
ClassifiedJustBelowHigh ==
    /\ fn = Helper("get_success_rate_color", TRUE)
    /\ arg = 949
    /\ result = "success-rate-medium"

====
